---- MODULE Spec2Model ----
(***************************************************************************)
(* Model of fms_sdg/generate_data.py: generate_data, the orchestration     *)
(* loop that groups tasks by data builder, resumes persisted output,       *)
(* invokes the builder under an iteration budget, routes accepted examples *)
(* to tasks, persists increments and reports discards.                     *)
(***************************************************************************)
EXTENDS Integers, Sequences, FiniteSets, TLC

\* ------------------------------------------------------------------ bounds
MaxBudget == 1      \* max_gen_requests ranges over 0..MaxBudget
MaxRuns == 2        \* processes started on one output directory (SpecResume)

\* ------------------------------------------------------------- input sets
TaskNames == <<"A", "B">>
Tasks == {"A", "B"}
Builders == <<"b1", "b2">>
\* the data_builder a task specification may name, per task: a builder of the
\* index, a wildcard pattern, the path of a configuration file, an unknown name
BuilderRefs == <<{"b1", "nope_a"}, {"b1", "b2", "b*", "cfg.yaml", "nope_b"}>>
Targets == {1, 2}
DiscardCounts == {0, 3}

Example(t, i) == [task_name |-> t, id |-> i]
Seed(t) == Example(t, 0)
\* what a builder may return: examples tagged for a task or for an unknown name
RetExamples == {Example("A", 1), Example("A", 2), Example("B", 1), Example("Z", 1)}

Range(s) == {s[i] : i \in 1..Len(s)}
SeqsUpTo(S, n) == UNION {[1..k -> S] : k \in 0..n}
IsPrefix(s, t) == Len(s) <= Len(t) /\ SubSeq(t, 1, Len(s)) = s
\* the accepted examples of one builder call: up to two, in any order
Returns == SeqsUpTo(RetExamples, 2)

RECURSIVE SumSeq(_)
SumSeq(s) == IF s = <<>> THEN 0 ELSE Head(s) + SumSeq(Tail(s))

NoFile == [exists |-> FALSE, data |-> <<>>]
File(d) == [exists |-> TRUE, data |-> d]

VARIABLES
    \* arguments of generate_data and the environment it reads
    max_gen_requests, data_path_exists, restart_generation, input_specs,
    builder_kind, skipped_cfg,
    \* the file system: each task's output_path
    output_file,
    \* locals of generate_data
    pc, task_inits, builder_names, builder_pos, builder_name,
    output_file_discarded, tasks, completed_tasks, machine_data,
    request_idx, iter_discarded, total_discarded,
    data_pool, filtered_data, discarded, task_pos, new_data,
    \* observation of the run: log messages, I/O and calls performed
    log, io, built, made, n_calls, call_idx, returned, loaded, runs,
    init_file, init_restart, raised

vars == <<max_gen_requests, data_path_exists, restart_generation, input_specs,
          builder_kind, output_file,
          pc, task_inits, builder_names, builder_pos, builder_name,
          output_file_discarded, tasks, completed_tasks, machine_data,
          request_idx, iter_discarded, total_discarded,
          data_pool, filtered_data, discarded, task_pos, new_data,
          log, io, built, made, n_calls, call_idx, returned, loaded, runs,
          init_file, init_restart, skipped_cfg, raised>>

args == <<max_gen_requests, data_path_exists, restart_generation, input_specs,
          builder_kind, init_file, init_restart, skipped_cfg>>
observed == <<log, io, built, made, n_calls, call_idx, returned, loaded, raised>>

\* ---------------------------------------------------------- task objects
\* SdgTask (fms_sdg/base/task.py) is consumed through its interface: a task is
\* complete when its generated examples reach its target count, save_data
\* appends to the output file, load_data returns its content, clear_data
\* removes it.
TaskInit(t) == CHOOSE s \in Range(input_specs) : s.name = t
seed_data(t) == TaskInit(t).seed_data
is_complete(t, md) == Len(md[t]) >= TaskInit(t).num_outputs
load_data(f) == f.data
save_data(f, d) == File(f.data \o d)
clear_data(f) == NoFile

\* ------------------------------------------------------- pure expressions
\* line 48: builder_list = [t["data_builder"] for t in task_inits]
builder_list(inits) == [i \in 1..Len(inits) |-> inits[i].data_builder]

\* line 62: "*" in builder
HasStar(b) == b = "b*"

\* line 54: os.path.isfile(builder)
IsFile(b) == b = "cfg.yaml"

\* line 55: utils.load_yaml_config(builder): a configuration, not a name
load_yaml_config(b) == "config of cfg.yaml"

\* DataBuilderIndex (fms_sdg/databuilders) is consumed through its interface:
\* a pattern matches the indexed names it equals or, with a wildcard, covers
Matches(pattern, b) == pattern = b \/ (HasStar(pattern) /\ b \in {"b1", "b2"})

\* lines 49-50: the indexed builder names matched by the list, in index order
match_builders(bl) ==
    SelectSeq(Builders, LAMBDA b : \E i \in DOMAIN bl : Matches(bl[i], b))

\* lines 51-56: the configuration of every unmatched builder that is a file is
\* appended to builder_names
ResolvedNames(bl) ==
    LET matched == match_builders(bl)
        files == SelectSeq(bl, LAMBDA b : b \notin Range(matched) /\ IsFile(b))
    IN  matched \o [i \in 1..Len(files) |-> load_yaml_config(files[i])]

\* lines 58-64: builder_missing
builder_missing(bl, names) ==
    {b \in Range(bl) : b \notin Range(names) /\ ~HasStar(b)}

\* a seed test that never fails
NoSeedsNever(n) == FALSE

\* line 101: if not seeds
NoSeeds(n) == n = 0

\* a reload that ignores restart_generation
FileToLoadKept(restart, f) == f

\* lines 116-118: the file that the existence test of line 118 sees
FileToLoad(restart, f) == IF restart THEN clear_data(f) ELSE f

\* no task is taken to be complete before the loop
CompletedAtStartNone(ts, md) == <<>>

\* line 123: completed_tasks = [task for task in tasks if task.is_complete()]
CompletedAtStart(ts, md) == SelectSeq(ts, LAMBDA t : is_complete(t, md))

\* lines 93-97: the tasks built for one builder, in the order of task_inits
GroupTasks(inits, b) ==
    LET mine == SelectSeq(inits, LAMBDA s : s.data_builder = b)
    IN  [i \in 1..Len(mine) |-> mine[i].name]

\* line 99: seeds = len([s for task in tasks for s in task.seed_data])
RECURSIVE SeedCount(_)
SeedCount(ts) ==
    IF ts = <<>> THEN 0 ELSE Len(seed_data(Head(ts))) + SeedCount(Tail(ts))

\* a pool that forgets the machine-generated examples
RECURSIVE DataPoolSeedsOnly(_, _)
DataPoolSeedsOnly(ts, md) ==
    IF ts = <<>> THEN <<>>
    ELSE seed_data(Head(ts)) \o DataPoolSeedsOnly(Tail(ts), md)

\* lines 132-134: data_pool
RECURSIVE DataPool(_, _)
DataPool(ts, md) ==
    IF ts = <<>> THEN <<>>
    ELSE seed_data(Head(ts)) \o md[Head(ts)] \o DataPool(Tail(ts), md)

\* a routing that hands a task at most one example per iteration
NewDataFirstOnly(fd, t) ==
    LET mine == SelectSeq(fd, LAMBDA fid : fid.task_name = t)
    IN  IF mine = <<>> THEN mine ELSE <<mine[1]>>

\* a routing that hands every accepted example to every task
NewDataUnrouted(fd, t) == fd

\* line 141: new_data = [fid for fid in filtered_data if fid.task_name == task.name]
NewData(fd, t) == SelectSeq(fd, LAMBDA fid : fid.task_name = t)

\* an active list from which completed tasks are never removed
ActiveTasksKeepAll(ts, done) == ts

\* lines 124, 150: tasks = [task for task in tasks if task not in completed_tasks]
ActiveTasks(ts, done) == SelectSeq(ts, LAMBDA t : t \notin Range(done))

\* a loop test that stops one request earlier
LoopConditionStrict(ts, idx, max) == ts # <<>> /\ idx < max

\* line 127: while tasks and request_idx <= max_gen_requests
LoopCondition(ts, idx, max) == ts # <<>> /\ idx <= max

\* no check of the data path
PathUnchecked(exists) == TRUE

\* line 42: if data_path and os.path.exists(data_path)
PathOk(exists) == exists

\* saving the whole generated sequence instead of the increment
SaveWholeSequence(all_data, share) == all_data

\* line 146: the argument of task.save_data
SaveArgument(all_data, share) == share

\* a report issued whatever the total
ReportAlways(total) == TRUE

\* line 162: if total_discarded
ReportDue(total) == total # 0

\* an assignment in place of the accumulation
AddDiscardedOverwrite(total, iter) == iter

\* line 152: total_discarded += iter_discarded
AddDiscarded(total, iter) == total + iter

\* ------------------------------------------------------------------- Init
\* the builders whose loaded configuration is (_, None): some of the matched
\* ones (b1 always has a configuration)
SkippedConfigs(inits) ==
    SUBSET ({"b2"} \cap Range(match_builders(builder_list(inits))))

InputSpecs ==
    {[i \in 1..2 |->
        [name |-> TaskNames[i],
         data_builder |-> r[i],
         seed_data |-> IF TaskNames[i] \in s THEN <<Seed(TaskNames[i])>> ELSE <<>>,
         num_outputs |-> n[TaskNames[i]]]]
     : r \in {f \in [1..2 -> BuilderRefs[1] \cup BuilderRefs[2]] :
                  \A i \in 1..2 : f[i] \in BuilderRefs[i]},
       s \in SUBSET Tasks, n \in [Tasks -> Targets]}

InitFiles == {f \in [Tasks -> [exists : BOOLEAN, data : SeqsUpTo(RetExamples, 1)]] :
                \A t \in Tasks :
                    \/ f[t] = NoFile
                    \/ f[t] = File(<<Example(t, 1)>>)}

InitLocals ==
    /\ pc = "start"
    /\ task_inits = <<>>
    /\ builder_names = <<>>
    /\ builder_pos = 0
    /\ builder_name = "none"
    /\ output_file_discarded = "none"
    /\ tasks = <<>>
    /\ completed_tasks = <<>>
    /\ machine_data = [t \in Tasks |-> <<>>]
    /\ request_idx = 0
    /\ iter_discarded = 0
    /\ total_discarded = 0
    /\ data_pool = <<>>
    /\ filtered_data = <<>>
    /\ discarded = 0
    /\ task_pos = 0
    /\ new_data = <<>>
    /\ log = <<>>
    /\ io = {}
    /\ built = {}
    /\ made = {}
    /\ n_calls = [b \in Range(Builders) |-> 0]
    /\ call_idx = <<>>
    /\ returned = [b \in Range(Builders) |-> 0]
    /\ loaded = [t \in Tasks |-> <<>>]
    /\ raised = {}

Init ==
    /\ max_gen_requests \in 0..MaxBudget
    /\ data_path_exists \in BOOLEAN
    /\ restart_generation \in BOOLEAN
    /\ input_specs \in InputSpecs
    /\ builder_kind = "any"
    /\ skipped_cfg \in SkippedConfigs(input_specs)
    /\ output_file \in InitFiles
    /\ init_file = output_file
    /\ init_restart = restart_generation
    /\ runs = 1
    /\ InitLocals

\* ---------------------------------------------------------------- actions
\* lines 42-45: read the task specifications or exit
CheckDataPath ==
    /\ pc = "start"
    /\ IF PathOk(data_path_exists)
       THEN /\ task_inits' = input_specs
            /\ pc' = "gather"
       ELSE /\ task_inits' = task_inits
            /\ pc' = "exit"
    /\ UNCHANGED <<args, output_file, builder_names, builder_pos, builder_name,
                   output_file_discarded, tasks, completed_tasks, machine_data,
                   request_idx, iter_discarded, total_discarded, data_pool,
                   filtered_data, discarded, task_pos, new_data, observed, runs>>

\* lines 48-72: resolve the builders, raise on missing ones, start the
\* discard total
GatherBuilders ==
    /\ pc = "gather"
    /\ LET bl == builder_list(task_inits)
           names == ResolvedNames(bl)
           missing == builder_missing(bl, names)
       IN  /\ builder_names' = names
           /\ IF missing # {}
              THEN /\ raised' = missing
                   /\ pc' = "error"
                   /\ UNCHANGED <<total_discarded, builder_pos>>
              ELSE /\ raised' = raised
                   /\ total_discarded' = 0
                   /\ builder_pos' = 1
                   /\ pc' = "for_builder"
    /\ UNCHANGED <<args, output_file, task_inits, builder_name,
                   output_file_discarded, tasks, completed_tasks, machine_data,
                   request_idx, iter_discarded, data_pool,
                   filtered_data, discarded, task_pos, new_data,
                   log, io, built, made, n_calls, call_idx, returned, loaded, runs>>

\* lines 74-82: the loaded configuration of the next builder is (_, None):
\* continue with the builder after it
SkipBuilder ==
    /\ pc = "for_builder"
    /\ builder_pos <= Len(builder_names)
    /\ builder_names[builder_pos] \in skipped_cfg
    /\ builder_name' = builder_names[builder_pos]
    /\ builder_pos' = builder_pos + 1
    /\ UNCHANGED <<args, output_file, pc, task_inits, builder_names,
                   output_file_discarded, tasks, completed_tasks, machine_data,
                   request_idx, iter_discarded, total_discarded, data_pool,
                   filtered_data, discarded, task_pos, new_data, observed, runs>>

\* lines 74-112: next builder: construct it and its tasks, check the seeds
BeginGroup ==
    /\ pc = "for_builder"
    /\ builder_pos <= Len(builder_names)
    /\ builder_names[builder_pos] \notin skipped_cfg
    /\ LET b == builder_names[builder_pos]
           ts == GroupTasks(task_inits, b)
       IN  /\ builder_name' = b
           /\ built' = built \cup {b}
           /\ tasks' = ts
           /\ made' = made \cup Range(ts)
           /\ machine_data' = [t \in Tasks |->
                                 IF t \in Range(ts) THEN <<>> ELSE machine_data[t]]
           /\ IF NoSeeds(SeedCount(ts))
              THEN /\ pc' = "exit"
                   /\ output_file_discarded' = output_file_discarded
              ELSE /\ pc' = "load"
                   /\ output_file_discarded' = b
    /\ UNCHANGED <<args, output_file, task_inits, builder_names, builder_pos,
                   completed_tasks, request_idx, iter_discarded, total_discarded,
                   data_pool, filtered_data, discarded, task_pos, new_data,
                   log, io, n_calls, call_idx, returned, loaded, runs, raised>>

\* lines 115-121: clear or reload each task's persisted output
LoadData ==
    /\ pc = "load"
    /\ LET mine == Range(tasks)
           kept == [t \in Tasks |->
                      IF t \in mine
                      THEN FileToLoad(restart_generation, output_file[t])
                      ELSE output_file[t]]
       IN  /\ output_file' = kept
           /\ machine_data' = [t \in Tasks |->
                                 IF t \in mine /\ kept[t].exists
                                 THEN load_data(kept[t]) ELSE machine_data[t]]
           /\ loaded' = [t \in Tasks |->
                           IF t \in mine /\ kept[t].exists
                           THEN load_data(kept[t]) ELSE loaded[t]]
           /\ io' = io \cup {<<"clear", t>> : t \in {u \in mine : restart_generation}}
                       \cup {<<"load", t>> : t \in {u \in mine : kept[u].exists}}
    /\ pc' = "prefilter"
    /\ UNCHANGED <<args, task_inits, builder_names, builder_pos, builder_name,
                   output_file_discarded, tasks, completed_tasks,
                   request_idx, iter_discarded, total_discarded, data_pool,
                   filtered_data, discarded, task_pos, new_data,
                   log, built, made, n_calls, call_idx, returned, runs, raised>>

\* lines 123-126: tasks already complete leave the active list
PreFilter ==
    /\ pc = "prefilter"
    /\ LET done == CompletedAtStart(tasks, machine_data)
       IN  /\ completed_tasks' = done
           /\ tasks' = ActiveTasks(tasks, done)
    /\ request_idx' = 0
    /\ call_idx' = <<>>
    /\ pc' = "while"
    /\ UNCHANGED <<args, output_file, task_inits, builder_names, builder_pos,
                   builder_name, output_file_discarded, machine_data,
                   iter_discarded, total_discarded, data_pool,
                   filtered_data, discarded, task_pos, new_data,
                   log, io, built, made, n_calls, returned, loaded, runs, raised>>

\* lines 127-134: loop test passes: count the request, build the pool
EnterIteration ==
    /\ pc = "while"
    /\ LoopCondition(tasks, request_idx, max_gen_requests)
    /\ request_idx' = request_idx + 1
    /\ iter_discarded' = 0
    /\ data_pool' = DataPool(tasks, machine_data)
    /\ pc' = "invoke"
    /\ UNCHANGED <<args, output_file, task_inits, builder_names, builder_pos,
                   builder_name, output_file_discarded, tasks, completed_tasks,
                   machine_data, total_discarded,
                   filtered_data, discarded, task_pos, new_data, observed, runs>>

\* lines 127, 157-158: loop test fails: drop the builder, go to the next one
ExitLoop ==
    /\ pc = "while"
    /\ ~LoopCondition(tasks, request_idx, max_gen_requests)
    /\ builder_pos' = builder_pos + 1
    /\ pc' = "for_builder"
    /\ UNCHANGED <<args, output_file, task_inits, builder_names,
                   builder_name, output_file_discarded, tasks, completed_tasks,
                   machine_data, request_idx, iter_discarded, total_discarded,
                   data_pool, filtered_data, discarded, task_pos, new_data,
                   observed, runs>>

\* what one builder call changes: its results and the record of the call
Called(ret, d) ==
    /\ filtered_data' = ret
    /\ discarded' = d
    /\ n_calls' = [n_calls EXCEPT ![builder_name] = @ + 1]
    /\ call_idx' = Append(call_idx, request_idx)
    /\ returned' = [returned EXCEPT ![builder_name] = @ + d]
    /\ task_pos' = 1
    /\ pc' = "for_task"
    /\ UNCHANGED <<args, output_file, task_inits, builder_names, builder_pos,
                   builder_name, output_file_discarded, tasks, completed_tasks,
                   machine_data, request_idx, iter_discarded, total_discarded,
                   data_pool, new_data, log, io, built, made, loaded, runs, raised>>

\* lines 136-139: the builder is a black box: any accepted examples, any count
Invoke ==
    /\ pc = "invoke"
    /\ builder_kind = "any"
    /\ \E ret \in Returns, d \in DiscardCounts :
          Called(ret, d)

\* builders whose result is a function of (request_idx, data_pool):
\* "fresh" returns one example, numbered by the request, for every task that
\* has an example in the pool; the scripted ones answer by the request alone
DetBuilders == {"fresh", "script_ab", "script_ba"}
DetReturn(kind, idx, pool) ==
    CASE kind = "fresh" ->
            LET named == SelectSeq(TaskNames,
                            LAMBDA t : \E i \in DOMAIN pool : pool[i].task_name = t)
            IN  [i \in 1..Len(named) |-> Example(named[i], idx)]
      [] kind = "script_ab" ->
            IF idx = 1 THEN <<Example("A", 1), Example("B", 1)>>
            ELSE IF idx = 2 THEN <<Example("A", 2)>> ELSE <<>>
      [] OTHER ->
            IF idx = 1 THEN <<Example("B", 1), Example("A", 1)>>
            ELSE IF idx = 2 THEN <<Example("A", 2)>> ELSE <<>>
DetDiscarded(kind, idx, pool) == IF idx = 1 THEN 3 ELSE 0

\* lines 136-139 with a deterministic builder
InvokeDet ==
    /\ pc = "invoke"
    /\ builder_kind \in DetBuilders
    /\ Called(DetReturn(builder_kind, request_idx, data_pool),
              DetDiscarded(builder_kind, request_idx, data_pool))

\* lines 140-145: route the task's share, note completion
ExtendTask ==
    /\ pc = "for_task"
    /\ LET task == tasks[task_pos]
           share == NewData(filtered_data, task)
           md == [machine_data EXCEPT ![task] = @ \o share]
       IN  /\ new_data' = share
           /\ machine_data' = md
           /\ completed_tasks' = IF is_complete(task, md)
                                 THEN Append(completed_tasks, task)
                                 ELSE completed_tasks
    /\ pc' = "save"
    /\ UNCHANGED <<args, output_file, task_inits, builder_names, builder_pos,
                   builder_name, output_file_discarded, tasks,
                   request_idx, iter_discarded, total_discarded,
                   data_pool, filtered_data, discarded, task_pos, observed, runs>>

\* line 146: task.save_data(new_data), then the next task of the for loop
SaveTask ==
    /\ pc = "save"
    /\ LET task == tasks[task_pos]
       IN  /\ output_file' = [output_file EXCEPT ![task] = save_data(@, SaveArgument(machine_data[task], new_data))]
           /\ io' = io \cup {<<"save", task>>}
    /\ IF task_pos < Len(tasks)
       THEN /\ task_pos' = task_pos + 1
            /\ pc' = "for_task"
       ELSE /\ task_pos' = task_pos
            /\ pc' = "end_iter"
    /\ UNCHANGED <<args, task_inits, builder_names, builder_pos,
                   builder_name, output_file_discarded, tasks, completed_tasks,
                   machine_data, request_idx, iter_discarded, total_discarded,
                   data_pool, filtered_data, discarded, new_data,
                   log, built, made, n_calls, call_idx, returned, loaded, runs, raised>>

\* lines 148-155: account the discards, recompute the active list.
\* The locals of the finished iteration (data_pool, filtered_data, discarded,
\* new_data, task_pos, iter_discarded) are assigned again before they are next read; they are
\* reset here so that states differing only in them coincide.
EndIteration ==
    /\ pc = "end_iter"
    /\ tasks' = ActiveTasks(tasks, completed_tasks)
    /\ total_discarded' = AddDiscarded(total_discarded, iter_discarded + discarded)
    /\ iter_discarded' = 0
    /\ data_pool' = <<>>
    /\ filtered_data' = <<>>
    /\ discarded' = 0
    /\ new_data' = <<>>
    /\ task_pos' = 0
    /\ pc' = "while"
    /\ UNCHANGED <<args, output_file, task_inits, builder_names, builder_pos,
                   builder_name, output_file_discarded, completed_tasks,
                   machine_data, request_idx, observed, runs>>

\* lines 160-168: after the last builder: report the discards, finish
Finish ==
    /\ pc = "for_builder"
    /\ builder_pos > Len(builder_names)
    /\ log' = IF ReportDue(total_discarded)
              THEN Append(log, [total |-> total_discarded,
                                file |-> output_file_discarded])
              ELSE log
    /\ pc' = "done"
    /\ UNCHANGED <<args, output_file, task_inits, builder_names, builder_pos,
                   builder_name, output_file_discarded, tasks, completed_tasks,
                   machine_data, request_idx, iter_discarded, total_discarded,
                   data_pool, filtered_data, discarded, task_pos, new_data,
                   io, built, made, n_calls, call_idx, returned, loaded, runs, raised>>

Next ==
    \/ CheckDataPath
    \/ GatherBuilders
    \/ SkipBuilder
    \/ BeginGroup
    \/ LoadData
    \/ PreFilter
    \/ EnterIteration
    \/ ExitLoop
    \/ Invoke
    \/ ExtendTask
    \/ SaveTask
    \/ EndIteration
    \/ Finish

Spec == Init /\ [][Next]_vars

\* lines 21-30: the process is killed at any statement and generate_data is
\* called again with the same arguments and output_dir, restart_generation
\* False: the files stay, every local starts afresh
Interrupt ==
    /\ pc \notin {"done", "exit", "error"}
    /\ runs < MaxRuns
    /\ runs' = runs + 1
    /\ restart_generation' = FALSE
    /\ pc' = "start"
    /\ task_inits' = <<>>
    /\ builder_names' = <<>>
    /\ builder_pos' = 0
    /\ builder_name' = "none"
    /\ output_file_discarded' = "none"
    /\ tasks' = <<>>
    /\ completed_tasks' = <<>>
    /\ machine_data' = [t \in Tasks |-> <<>>]
    /\ request_idx' = 0
    /\ iter_discarded' = 0
    /\ total_discarded' = 0
    /\ data_pool' = <<>>
    /\ filtered_data' = <<>>
    /\ discarded' = 0
    /\ task_pos' = 0
    /\ new_data' = <<>>
    /\ log' = <<>>
    /\ io' = {}
    /\ built' = {}
    /\ made' = {}
    /\ n_calls' = [b \in Range(Builders) |-> 0]
    /\ call_idx' = <<>>
    /\ returned' = [b \in Range(Builders) |-> 0]
    /\ loaded' = [t \in Tasks |-> <<>>]
    /\ raised' = {}
    /\ UNCHANGED <<max_gen_requests, data_path_exists, input_specs, builder_kind,
                   output_file, init_file, init_restart, skipped_cfg>>

\* the first call starts on an empty output directory
InitResume ==
    /\ max_gen_requests \in 0..MaxBudget
    /\ data_path_exists = TRUE
    /\ restart_generation \in BOOLEAN
    /\ input_specs \in InputSpecs
    /\ builder_kind \in DetBuilders
    /\ skipped_cfg \in SkippedConfigs(input_specs)
    /\ output_file = [t \in Tasks |-> NoFile]
    /\ init_file = output_file
    /\ init_restart = restart_generation
    /\ runs = 1
    /\ InitLocals

NextResume ==
    \/ CheckDataPath
    \/ GatherBuilders
    \/ SkipBuilder
    \/ BeginGroup
    \/ LoadData
    \/ PreFilter
    \/ EnterIteration
    \/ ExitLoop
    \/ InvokeDet
    \/ ExtendTask
    \/ SaveTask
    \/ EndIteration
    \/ Finish
    \/ Interrupt

\* runs of a deterministic builder, interrupted and resumed
SpecResume == InitResume /\ [][NextResume]_vars

\* generate_data is one synchronous thread: as long as a statement is left to
\* run, and the builder call returns, the next statement runs
InitFair ==
    /\ Init
    /\ data_path_exists
    /\ ~restart_generation
    /\ \A t \in Tasks : seed_data(t) # <<>>
    /\ output_file["A"] = NoFile
    /\ \A t \in Tasks : TaskInit(t).data_builder \in Range(Builders)

FairSpec == InitFair /\ [][Next]_vars /\ WF_vars(Next)

\* ------------------------------------------------------ claim vocabulary
\* the for loop is back at its head after the loop of builder_name has ended
GroupEnded == pc = "for_builder" /\ builder_name # "none"
\* the tasks of the group being processed
GroupSet == Range(tasks) \cup Range(completed_tasks)
InLoop == pc \in {"while", "invoke", "for_task", "save", "end_iter"}
Count(e, s) == Cardinality({i \in DOMAIN s : s[i] = e})
NoDuplicates(s) == \A i, j \in DOMAIN s : s[i] = s[j] => i = j
AllExamples == RetExamples \cup {Seed(t) : t \in Tasks}
RunReturned == returned["b1"] + returned["b2"]

\* C1: for a group none of whose tasks ever becomes complete, the loop has
\* invoked the builder exactly max_gen_requests times when it ends.
C1_ExactlyMaxInvocations ==
    (GroupEnded /\ completed_tasks = <<>> /\ tasks # <<>>)
        => n_calls[builder_name] = max_gen_requests

\* C2: at every builder invocation the pool holds each example exactly as
\* often as the seed and generated examples of the active tasks hold it, and
\* no example of a task of the completed list.
C2_PoolIsActiveUnion ==
    pc = "invoke" =>
        /\ \A e \in AllExamples :
              Count(e, data_pool) =
                  SumSeq([i \in 1..Len(tasks) |->
                            Count(e, seed_data(tasks[i]))
                            + Count(e, machine_data[tasks[i]])])
        /\ \A i \in DOMAIN data_pool :
              data_pool[i].task_name \notin Range(completed_tasks)
        /\ Range(tasks) \cap Range(completed_tasks) = {}

C2_Witness ==
    /\ pc = "invoke"
    /\ request_idx = 2
    /\ Len(tasks) = 1
    /\ Len(completed_tasks) = 1
    /\ machine_data[tasks[1]] # <<>>
    /\ machine_data[completed_tasks[1]] # <<>>
    /\ seed_data(completed_tasks[1]) # <<>>

\* C4: what is appended after a reload, in memory and on disk, never contains
\* an example that the reload brought in.
C4_NoReloadedExampleAgain ==
    \A t \in Tasks :
        /\ \A i \in (Len(loaded[t]) + 1)..Len(machine_data[t]) :
              machine_data[t][i] \notin Range(loaded[t])
        /\ \A i \in (Len(loaded[t]) + 1)..Len(output_file[t].data) :
              output_file[t].data[i] \notin Range(loaded[t])

\* C5: during a group's loop each task's persisted output is a prefix of its
\* generated sequence; only the task whose share is extended but not yet saved
\* has an unpersisted suffix, which is its share of the current call's
\* accepted examples; at the loop head the two are equal for every task of
\* the group.
C5_PersistedPrefix ==
    InLoop =>
        \A t \in GroupSet :
            /\ IsPrefix(output_file[t].data, machine_data[t])
            /\ machine_data[t] =
                  output_file[t].data \o
                      (IF pc = "save" /\ t = tasks[task_pos] THEN new_data ELSE <<>>)
            /\ (pc = "save" /\ t = tasks[task_pos]) =>
                  new_data = SelectSeq(filtered_data, LAMBDA e : e.task_name = t)
            /\ pc = "while" => output_file[t].data = machine_data[t]

C5_Witness ==
    /\ pc = "save"
    /\ task_pos = 2
    /\ new_data # <<>>
    /\ Len(machine_data[tasks[1]]) > Len(loaded[tasks[1]])
    /\ tasks[1] \in Range(completed_tasks)
    /\ output_file[tasks[2]].data # machine_data[tasks[2]]

C10_MissingPathIsFatal ==
    ~data_path_exists =>
        /\ pc \in {"start", "exit"}
        /\ task_inits = <<>>
        /\ builder_names = <<>>
        /\ built = {}
        /\ made = {}
        /\ \A b \in Range(Builders) : n_calls[b] = 0
        /\ io = {}
        /\ output_file = init_file
        /\ log = <<>>

C10_Witness == ~data_path_exists /\ pc = "exit"

\* C6: every group's loop ends; when it has ended the active list is empty or
\* request_idx exceeds max_gen_requests and the tasks still active are
\* incomplete; the run never enters the fatal exit (data path and seeds being
\* present), it goes on from the ended loop to the next builder or to the
\* final summary, and it reaches the end of generate_data.
C6_Termination ==
    /\ InLoop ~> GroupEnded
    /\ <>(pc = "done")
    /\ [](GroupEnded => (tasks = <<>> \/ request_idx > max_gen_requests))
    /\ [](GroupEnded => \A t \in Range(tasks) : ~is_complete(t, machine_data))
    /\ [](pc # "exit")
    /\ [][GroupEnded => pc' \in {"for_builder", "load", "done"}]_vars

C6_Witness ==
    /\ pc = "done"
    /\ Len(builder_names) = 2
    /\ request_idx > max_gen_requests
    /\ tasks # <<>>
    /\ n_calls["b1"] > max_gen_requests
    /\ ~is_complete("A", machine_data)

\* what the group loop of lines 126-150 leaves in machine_data when nothing
\* interrupts it, for the deterministic builder of the run
RECURSIVE UninterruptedLoop(_, _, _)
UninterruptedLoop(active, md, idx) ==
    IF ~LoopCondition(active, idx, max_gen_requests) THEN md
    ELSE LET ret == DetReturn(builder_kind, idx + 1, DataPool(active, md))
             md1 == [t \in Tasks |->
                       IF t \in Range(active) THEN md[t] \o NewData(ret, t) ELSE md[t]]
             done == SelectSeq(active, LAMBDA t : is_complete(t, md1))
         IN  UninterruptedLoop(ActiveTasks(active, done), md1, idx + 1)

\* the same for the whole first call of generate_data, builder after builder
RECURSIVE UninterruptedRun(_, _)
UninterruptedRun(k, md) ==
    LET names == ResolvedNames(builder_list(input_specs))
    IN  IF k > Len(names) THEN md
        ELSE IF names[k] \in skipped_cfg THEN UninterruptedRun(k + 1, md)
        ELSE LET ts == GroupTasks(input_specs, names[k])
                 md0 == [t \in Tasks |->
                           IF t \notin Range(ts) THEN md[t]
                           ELSE IF ~init_restart /\ init_file[t].exists
                                THEN load_data(init_file[t]) ELSE <<>>]
                 done == SelectSeq(ts, LAMBDA t : is_complete(t, md0))
             IN  UninterruptedRun(k + 1,
                     UninterruptedLoop(ActiveTasks(ts, done), md0, 0))

\* C3: a run that was interrupted and resumed ends with, for every task, the
\* set of generated examples of the uninterrupted run, in memory and on disk,
\* and with no example twice where the uninterrupted run has none twice.
C3_ResumeMatchesUninterrupted ==
    (pc = "done" /\ runs > 1) =>
        LET whole == UninterruptedRun(1, [u \in Tasks |-> <<>>])
        IN  \A t \in Tasks :
                /\ Range(machine_data[t]) = Range(whole[t])
                /\ Range(output_file[t].data) = Range(whole[t])
                /\ NoDuplicates(whole[t]) => NoDuplicates(machine_data[t])

\* the two-task scenario: A and B under one builder, A complete at 2 and B at
\* 1, both empty at the start; call 1 returns one example for each, call 2 one
\* example for A; no interruption
Scenario ==
    /\ runs = 1
    /\ builder_kind \in {"script_ab", "script_ba"}
    /\ TaskInit("A").data_builder = "b1"
    /\ TaskInit("B").data_builder = "b1"
    /\ TaskInit("A").num_outputs = 2
    /\ TaskInit("B").num_outputs = 1
    /\ init_restart \/ \A t \in Tasks : ~init_file[t].exists

\* C9: in the scenario, after iteration 1 B is in the completed list and out
\* of the active list and of the pool of iteration 2; after iteration 2 A is
\* complete too; the loop ends after at most 2 invocations, and after exactly
\* 2 with an empty active list whenever the loop test admits the second one.
C9_TwoTaskScenario ==
    Scenario =>
        /\ (pc = "while" /\ request_idx = 1) =>
              /\ completed_tasks = <<"B">>
              /\ tasks = <<"A">>
              /\ Len(machine_data["A"]) = 1
        /\ (pc = "invoke" /\ request_idx = 2) =>
              /\ tasks = <<"A">>
              /\ \A i \in DOMAIN data_pool : data_pool[i].task_name # "B"
        /\ (pc = "while" /\ request_idx = 2) =>
              /\ Range(completed_tasks) = {"A", "B"}
              /\ tasks = <<>>
              /\ is_complete("A", machine_data)
        /\ GroupEnded =>
              /\ n_calls["b1"] <= 2
              /\ n_calls["b1"] = 2 => (tasks = <<>> /\ request_idx = 2)
              /\ max_gen_requests >= 1 => n_calls["b1"] = 2

C9_Witness ==
    /\ Scenario
    /\ GroupEnded
    /\ n_calls["b1"] = 2
    /\ tasks = <<>>
    /\ completed_tasks = <<"B", "A">>

\* ------------------------------------------------- claim vocabulary, continued
\* the task specifications that name builder b exactly
SpecGroup(b) == {t \in Tasks : TaskInit(t).data_builder = b}
\* the builder being processed was constructed and its tasks carry no seed
ZeroSeedGroup ==
    /\ builder_name # "none"
    /\ builder_name \notin skipped_cfg
    /\ \A t \in SpecGroup(builder_name) : TaskInit(t).seed_data = <<>>

\* C11: a group whose tasks have no seed example at all ends the run in the
\* fatal exit: its builder is never invoked, no builder after it is constructed,
\* none of its tasks' output is cleared, loaded or written, and nothing is
\* reported; the fatal exit past the data path check has no other cause.
C11_ZeroSeedsIsFatal ==
    /\ ZeroSeedGroup =>
          /\ pc = "exit"
          /\ n_calls[builder_name] = 0
          /\ \A t \in SpecGroup(builder_name) :
                /\ output_file[t] = init_file[t]
                /\ \A op \in {"clear", "load", "save"} : <<op, t>> \notin io
          /\ built \subseteq {builder_names[i] : i \in 1..builder_pos}
          /\ builder_names[builder_pos] = builder_name
          /\ log = <<>>
    /\ (pc = "exit" /\ data_path_exists) => ZeroSeedGroup

C11_Witness ==
    /\ pc = "exit"
    /\ data_path_exists
    /\ restart_generation
    /\ builder_pos = 2
    /\ \E t \in SpecGroup(builder_name) : output_file[t].exists

\* the names the builder-resolution check is to report: no match in the
\* builder index, not a loadable configuration file, no wildcard
Unresolved ==
    LET bl == builder_list(input_specs)
    IN  {b \in Range(bl) : /\ b \notin Range(match_builders(bl))
                           /\ ~IsFile(b)
                           /\ ~HasStar(b)}

\* C12: once the builders are gathered, the run has failed with the
\* missing-builder error exactly when some referenced name is unresolved; the
\* error lists exactly the unresolved names and is raised before any builder
\* is constructed or invoked and before any task state is touched.
C12_ErrorIffUnresolved ==
    /\ pc = "error" =>
          /\ raised = Unresolved
          /\ raised # {}
          /\ built = {} /\ made = {} /\ io = {}
          /\ \A b \in Range(Builders) : n_calls[b] = 0
          /\ output_file = init_file
    /\ (pc \notin {"start", "gather", "exit"} \/ builder_name # "none") =>
          (pc = "error" <=> Unresolved # {})

\* the for loop of lines 74-165 has taken every resolved builder: the run
\* finished, or failed on the seeds of the last group
AllGroupsTaken ==
    \/ pc = "done"
    \/ /\ pc = "exit"
       /\ builder_name # "none"
       /\ builder_pos = Len(builder_names)

\* C13: when every resolved builder has been taken, every input TaskSpec (all
\* of them passed the builder-resolution check) was instantiated as a Task, in
\* the group of exactly one constructed builder.
C13_EveryTaskInOneGroup ==
    AllGroupsTaken =>
        \A t \in Tasks :
            /\ t \in made
            /\ Cardinality({b \in built : t \in Range(GroupTasks(task_inits, b))}) = 1

\* C14: at every loop head the active and the completed set are disjoint and
\* together are exactly the group's tasks, every active task is incomplete,
\* and no task is in the completed set twice; during a group's run the
\* completed set only grows at its end, the active set never gains a task, and
\* no task already completed is active at the next loop head.
C14_ActiveCompletedPartition ==
    /\ [](pc = "while" =>
            /\ Range(tasks) \cap Range(completed_tasks) = {}
            /\ GroupSet = Range(GroupTasks(task_inits, builder_name))
            /\ \A t \in Range(tasks) : ~is_complete(t, machine_data)
            /\ NoDuplicates(completed_tasks)
            /\ NoDuplicates(tasks))
    /\ [][(InLoop /\ InLoop') =>
            /\ IsPrefix(completed_tasks, completed_tasks')
            /\ Range(tasks') \subseteq Range(tasks)
            /\ pc' = "while" => Range(completed_tasks) \cap Range(tasks') = {}]_vars

C14_Witness ==
    /\ pc = "while"
    /\ request_idx >= 1
    /\ tasks # <<>>
    /\ \E t \in Range(completed_tasks) : ~is_complete(t, loaded)

\* the examples of sequence s that are tagged with task t, in the order of s
Share(s, t) == SelectSeq(s, LAMBDA e : e.task_name = t)

\* C15: the routing step of a task appends to its generated sequence exactly
\* the accepted examples tagged with its name, in the builder's order, and
\* touches no other task; the save step that follows appends exactly that
\* share to the task's output; at the end of an iteration every task active at
\* its start holds what it held in the pool followed by its whole share, also
\* when it became complete, and its output holds the same sequence; generated
\* sequences only grow at their end during a group's run.
C15_PerTaskRouting ==
    /\ [][(pc = "for_task" /\ pc' = "save") =>
            LET t == tasks[task_pos]
            IN  /\ machine_data'[t] = machine_data[t] \o Share(filtered_data, t)
                /\ new_data' = Share(filtered_data, t)
                /\ \A u \in Tasks \ {t} : machine_data'[u] = machine_data[u]
                /\ output_file' = output_file]_vars
    /\ [][(pc = "save" /\ pc' # "save") =>
            LET t == tasks[task_pos]
            IN  /\ output_file'[t] = save_data(output_file[t], Share(filtered_data, t))
                /\ \A u \in Tasks \ {t} : output_file'[u] = output_file[u]
                /\ machine_data' = machine_data]_vars
    /\ [](pc = "end_iter" =>
            /\ task_pos = Len(tasks)
            /\ \A t \in Range(tasks) :
                  /\ seed_data(t) \o machine_data[t]
                        = Share(data_pool, t) \o Share(filtered_data, t)
                  /\ output_file[t].data = machine_data[t])
    /\ [][(InLoop /\ InLoop') =>
            \A t \in Tasks : IsPrefix(machine_data[t], machine_data'[t])]_vars

C15_Witness ==
    /\ pc = "end_iter"
    /\ \E t \in Range(tasks) :
          /\ TaskInit(t).num_outputs = 1
          /\ Len(Share(filtered_data, t)) = 2
          /\ Len(machine_data[t]) = 2
          /\ t \in Range(completed_tasks)

\* C16: an accepted example reaches no generated sequence and no output other
\* than those of the task it is tagged with, so an example tagged with an
\* unknown name reaches none; during a group's run a task outside the active
\* list keeps its generated sequence and its output, an instantiated task
\* outside the active list keeps them in every step of the run, and no step
\* of the loop ends the run with an error.
C16_UnroutableDropped ==
    /\ [](\A t \in Tasks :
            /\ \A i \in DOMAIN machine_data[t] : machine_data[t][i].task_name = t
            /\ \A i \in DOMAIN output_file[t].data :
                  output_file[t].data[i].task_name = t)
    /\ [][\A t \in Tasks \ Range(tasks) :
            (InLoop /\ InLoop') \/ t \in made =>
                /\ machine_data'[t] = machine_data[t]
                /\ output_file'[t] = output_file[t]]_vars
    /\ [][InLoop => pc' \notin {"error", "exit"}]_vars

C16_Witness ==
    /\ pc = "end_iter"
    /\ \E i \in DOMAIN filtered_data : filtered_data[i].task_name \notin Tasks
    /\ \E i \in DOMAIN filtered_data :
          filtered_data[i].task_name \in Range(completed_tasks) \ Range(tasks)

\* the resume phase of the group is over and no iteration has begun
ResumeDone == pc = "prefilter" \/ (pc = "while" /\ request_idx = 0)

\* C17: after the resume phase, without restart_generation a task whose
\* persisted output exists holds exactly that content, the output itself is
\* as it was, and a task without output holds nothing; with restart_generation
\* every task's output was cleared and the task holds nothing.
C17_ResumePhase ==
    ResumeDone =>
        \A t \in Range(GroupTasks(task_inits, builder_name)) :
            IF restart_generation
            THEN /\ machine_data[t] = <<>>
                 /\ output_file[t] = NoFile
                 /\ <<"clear", t>> \in io
                 /\ <<"load", t>> \notin io
            ELSE /\ machine_data[t] = init_file[t].data
                 /\ output_file[t] = init_file[t]
                 /\ <<"clear", t>> \notin io
                 /\ <<"load", t>> \in io <=> init_file[t].exists

C17_Witness ==
    /\ pc = "while"
    /\ request_idx = 0
    /\ restart_generation
    /\ \E t \in GroupSet : init_file[t].exists /\ init_file[t].data # <<>>

\* task t was complete by what the resume phase loaded, and the pre-filter
\* of its group has run
PreComplete(t) == is_complete(t, loaded) /\ pc # "prefilter"

\* C18: a task already complete after the resume phase is in the completed set
\* from the first loop head on and never in the active list; no pool holds one
\* of its examples, its generated sequence stays what was loaded, its output
\* is never written; when every task of a group is already complete, the
\* group's builder is never invoked.
C18_PreFilter ==
    /\ \A t \in Tasks :
          PreComplete(t) =>
              /\ t \notin Range(tasks)
              /\ (InLoop /\ t \in SpecGroup(builder_name)) =>
                    t \in Range(completed_tasks)
              /\ \A i \in DOMAIN data_pool : data_pool[i].task_name # t
              /\ machine_data[t] = loaded[t]
              /\ output_file[t] = init_file[t]
              /\ <<"save", t>> \notin io
    /\ (/\ builder_name # "none"
        /\ \A t \in SpecGroup(builder_name) : PreComplete(t)) =>
            n_calls[builder_name] = 0

C18_Witness ==
    /\ pc = "end_iter"
    /\ \E t \in Range(completed_tasks) :
          /\ PreComplete(t)
          /\ Seed(t) \in Range(seed_data(t))
          /\ Share(filtered_data, t) # <<>>

\* C19: the iteration indices passed to a group's builder so far are
\* 1, 2, 3, ... without gap or repeat, and every one of them is at least 1
\* and at most max_gen_requests.
C19_IndicesWithinBudget ==
    /\ call_idx = [i \in 1..Len(call_idx) |-> i]
    /\ \A i \in DOMAIN call_idx :
          call_idx[i] >= 1 /\ call_idx[i] <= max_gen_requests

\* C20: whenever the builder is, or has just been, invoked, the pool passed
\* to it holds at least one example.
C20_PoolNeverEmpty ==
    pc \in {"invoke", "for_task"} => data_pool # <<>>

====
